---- MODULE Spec2Model ----
(***************************************************************************)
(* Model of tonivega/simple-worker (src/main.go).                          *)
(*                                                                         *)
(* Spec           the server: the two HTTP handlers over the job queue,    *)
(*                each request served in one step (what the mutex and the  *)
(*                handlers' order of checks give); the last exchange is    *)
(*                kept in exch.                                            *)
(* MutexSpec      the same queue with one handler thread per request and   *)
(*                one statement of addJob and getJobs per step, the mutex  *)
(*                explicit.                                                *)
(* WorkerSpec     a worker: poll loop, slot pool and job goroutines, jobs  *)
(*                submitted by the add subcommand, the server as in Spec.  *)
(* LiveWorkerSpec WorkerSpec with the fairness of the Go scheduler, of the *)
(*                deadline timers and of the kill they trigger.            *)
(* LiveLoopSpec   LiveWorkerSpec with the poll loop fair as well.          *)
(* ReliableSpec   a worker with the server's URL and secret over a         *)
(*                transport that delivers, poll loop and jobs fair.        *)
(***************************************************************************)
EXTENDS Integers, Sequences, FiniteSets, Bags, TLC

(* ------------------------------ bounds --------------------------------- *)

\* jobs the queue accepts in one behaviour
MaxJobs == 3
\* addJob calls in one behaviour of MutexSpec
MaxAdds == 2
\* the -slots flag of the worker
Slots == 2

(* --------------------------- data and inputs --------------------------- *)

\* the zero value of a Job, main.go:35-39
ZeroJob == [id |-> 0, command |-> "", timeout |-> 0]

\* X-Job-Password as it arrives: absent, or one of these strings
Absent == "<absent>"
Secret == "s3cret"
Headers == {Absent, Secret, "wrong"}

\* request bodies of POST /jobs: bytes that are no JSON, or a JSON object with
\* these fields (a field left out reads as its zero value after decoding)
Json(id, command, timeout) ==
  [json |-> TRUE, id |-> id, command |-> command, timeout |-> timeout]
Garbage == [json |-> FALSE, id |-> 0, command |-> "", timeout |-> 0]
Payloads ==
  { Json(0, "a", 1), Json(7, "b", 1), Json(0, "", 5), Json(0, "a", 0),
    Json(0, "b", -1) }
Bodies == Payloads \cup {Garbage}
Methods == {"POST", "GET"}

\* the `slots` query parameter as it arrives ("" is also what Get gives when
\* the parameter is absent)
SlotStrs == {"", "x", "-1", "0", "1", "2"}

Threads == {1, 2, 3}
Workers == {"w1"}
JobIds == 1 .. MaxJobs

\* the -cmd and -timeout flags of the add subcommand
AddCmds == {"", "a"}
AddTimeouts == {0, 1}

\* the -server flag of a worker: a URL, or a string url.Parse refuses
GoodURL == "http://server:8080"
BadURL == "http://server :8080"

(* ------------------------------- state --------------------------------- *)

VARIABLES
  authPassword,  \* main.go:25, set once by runServer
  queue,         \* jobQueue.queue
  nextID,        \* jobQueue.nextID
  exch,          \* the last request served and the response it got
  enqLog,        \* history: the jobs appended to the queue, in order
  deqLog,        \* history: the results of getJobs that hold a job, in order
  mu,            \* jobQueue's sync.Mutex: 0 when free, else the holder
  hpc,           \* per handler thread: where it stands
  hjob,          \* jobsHandler's local `job`
  hn,            \* getJobs's `n`
  hjobs,         \* getJobs's `jobs`
  hresp,         \* per handler thread: the response written
  pass,          \* per worker: the -password flag, main.go:222
  serverURL,     \* per worker: the -server flag, main.go:219
  wpc,           \* per worker: where the poll loop stands
  freeSlots,     \* per worker: the poll loop's freeSlots, main.go:242
  jobs,          \* per worker: the decoded jobs not yet handed to a goroutine
  sem,           \* per worker: len(sem), main.go:231
  tasks,         \* per worker: the goroutines of main.go:270-277
  started,       \* history: the ids jobRunner was started with, a bag
  released       \* history: the ids whose goroutine gave its slot back, a bag

qvars == <<authPassword, queue, nextID, enqLog, deqLog>>
hvars == <<mu, hpc, hjob, hn, hjobs, hresp>>

wvars == <<pass, serverURL, wpc, freeSlots, jobs, sem, tasks, started, released>>

vars == <<qvars, exch, hvars, wvars>>

(* --------------------------- pure functions ---------------------------- *)

Range(s) == {s[i] : i \in DOMAIN s}

\* r.Header.Get("X-Job-Password"): "" when the header is absent
HeaderGet(h) == IF h = Absent THEN "" ELSE h

\* a check that lets a request without the header through
checkAuthAbsentPasses(pw, h) ==
  IF pw = "" \/ h = Absent THEN TRUE ELSE HeaderGet(h) = pw

\* checkAuth, main.go:88-94
checkAuth(pw, h) ==
  IF pw = "" THEN TRUE ELSE HeaderGet(h) = pw

\* json.NewDecoder(r.Body).Decode(&job), main.go:105-106
DecodeErr(body) == ~body.json
DecodeJob(body) ==
  IF DecodeErr(body) THEN ZeroJob
  ELSE [id |-> body.id, command |-> body.command, timeout |-> body.timeout]

\* a test that lets a timeout of 0 through
InvalidJobNegativeOnly(job) == job.command = "" \/ job.timeout < 0

\* the rejection test of main.go:111
InvalidJob(job) == job.command = "" \/ job.timeout <= 0

\* strconv.Atoi on the strings of SlotStrs, main.go:144
Digits == <<"0", "1", "2", "3", "4", "5", "6", "7", "8", "9">>
AtoiErr(s) == s \notin Range(Digits) \cup {"-" \o Digits[i] : i \in DOMAIN Digits}
Atoi(s) ==
  IF AtoiErr(s) THEN 0
  ELSE IF s \in Range(Digits) THEN (CHOOSE i \in DOMAIN Digits : Digits[i] = s) - 1
  ELSE 1 - (CHOOSE i \in DOMAIN Digits : "-" \o Digits[i] = s)

\* fmt.Sprintf("%d", n) for the counts a worker asks for, main.go:244
Itoa(n) == IF n >= 0 THEN Digits[n + 1] ELSE "-" \o Digits[1 - n]

\* an addJob that keeps the id the submitter sent when there is one
AssignIDKeepGiven(j, next) == IF j.id # 0 THEN j ELSE [j EXCEPT !.id = next]

\* j.ID = q.nextID, main.go:63
AssignID(j, next) == [j EXCEPT !.id = next]

\* a counter that skips every other id
IncrIDByTwo(next) == next + 2

\* q.nextID++, main.go:64
IncrID(next) == next + 1

\* a getJobs that hands out one job at most
ClampToOne(n, len) == IF len = 0 \/ n = 0 THEN 0 ELSE 1

\* if n > len(q.queue) { n = len(q.queue) }, main.go:73-75
Clamp(n, len) == IF n > len THEN len ELSE n

\* a getJobs that hands out one job more than asked when there is one
SliceToOneMore(q, n) == SubSeq(q, 1, IF n < Len(q) THEN n + 1 ELSE n)
\* a getJobs that hands out the newest jobs instead of the oldest
SliceToNewest(q, n) == SubSeq(q, Len(q) - n + 1, Len(q))
\* a getJobs whose cut is off by one: the last job handed out stays pending
SliceFromOffByOne(q, n) == IF n = 0 THEN q ELSE SubSeq(q, n, Len(q))

\* q.queue[:n] and q.queue[n:], main.go:76-77
SliceTo(q, n) == SubSeq(q, 1, n)
SliceFrom(q, n) == SubSeq(q, n + 1, Len(q))

\* the jobQueue as one value
JobQueue(q, next) == [queue |-> q, nextID |-> next]

\* addJob with the mutex held throughout, main.go:60-67: the queue after the
\* call, and the job as the caller sees it afterwards
addJob(q, j) ==
  [q |-> JobQueue(Append(q.queue, AssignID(j, q.nextID)), IncrID(q.nextID)),
   job |-> AssignID(j, q.nextID)]

\* getJobs with the mutex held throughout, main.go:70-80
getJobs(q, n) ==
  [q |-> JobQueue(SliceFrom(q.queue, Clamp(n, Len(q.queue))), q.nextID),
   jobs |-> SliceTo(q.queue, Clamp(n, Len(q.queue)))]

Request(kind, header, method, body, slotsStr) ==
  [kind |-> kind, pass |-> header, method |-> method, body |-> body,
   slots |-> slotsStr]
NoRequest == Request("none", Absent, "", Garbage, "")
Response(status, body) == [status |-> status, body |-> body]
NoResponse == Response(0, <<>>)
\* what a handler that panics leaves: net/http drops the connection
Aborted == Response(-1, <<>>)

\* the status jobsHandler refuses a request with, main.go:97-101, 106-110,
\* 111-115 and 123-127; 0 when it goes on to addJob
jobsHandlerStatus(pw, h, m, body) ==
  IF ~checkAuth(pw, h) THEN 401
  ELSE IF m # "POST" THEN 405
  ELSE IF DecodeErr(body) THEN 400
  ELSE IF InvalidJob(DecodeJob(body)) THEN 400
  ELSE 0

\* jobsHandler as a whole, main.go:96-128: the response and the queue after it
jobsHandler(pw, q, h, m, body) ==
  IF jobsHandlerStatus(pw, h, m, body) # 0
    THEN [resp |-> Response(jobsHandlerStatus(pw, h, m, body), <<>>), q |-> q]
    ELSE [resp |-> Response(200, <<addJob(q, DecodeJob(body)).job>>),
          q |-> addJob(q, DecodeJob(body)).q]

\* a pollHandler that lets a count of 0 through
pollHandlerStatusZeroPasses(pw, h, slotsStr) ==
  IF ~checkAuth(pw, h) THEN 401
  ELSE IF slotsStr = "" THEN 400
  ELSE IF AtoiErr(slotsStr) \/ Atoi(slotsStr) < 0 THEN 400
  ELSE 0

\* the status pollHandler refuses a request with, main.go:131-135 and 138-149;
\* 0 when it goes on to getJobs
pollHandlerStatus(pw, h, slotsStr) ==
  IF ~checkAuth(pw, h) THEN 401
  ELSE IF slotsStr = "" THEN 400
  ELSE IF AtoiErr(slotsStr) \/ Atoi(slotsStr) < 1 THEN 400
  ELSE 0

\* pollHandler as a whole, main.go:130-156
pollHandler(pw, q, h, slotsStr) ==
  IF pollHandlerStatus(pw, h, slotsStr) # 0
    THEN [resp |-> Response(pollHandlerStatus(pw, h, slotsStr), <<>>), q |-> q]
    ELSE [resp |-> Response(200, getJobs(q, Atoi(slotsStr)).jobs),
          q |-> getJobs(q, Atoi(slotsStr)).q]

\* the history of getJobs results after one more result
Record(log, result) == IF result = <<>> THEN log ELSE Append(log, result)

(* ------------------------------- Init ---------------------------------- *)

\* runServer sets the password, main.go:161-165; newJobQueue, main.go:52-57
InitServer ==
  /\ authPassword \in {"", Secret}
  /\ queue = <<>>
  /\ nextID = 1
  /\ exch = [req |-> NoRequest, resp |-> NoResponse]
  /\ enqLog = <<>>
  /\ deqLog = <<>>

InitThreads ==
  /\ mu = 0
  /\ hpc = [t \in Threads |-> "idle"]
  /\ hjob = [t \in Threads |-> ZeroJob]
  /\ hn = [t \in Threads |-> 0]
  /\ hjobs = [t \in Threads |-> <<>>]
  /\ hresp = [t \in Threads |-> NoResponse]

\* the flags of runWorker and its state on entering the loop, main.go:219-240
InitWorkers ==
  /\ pass \in [Workers -> {"", Secret}]
  /\ serverURL \in [Workers -> {GoodURL, BadURL}]
  /\ wpc = [w \in Workers |-> "top"]
  /\ freeSlots = [w \in Workers |-> 0]
  /\ jobs = [w \in Workers |-> <<>>]
  /\ sem = [w \in Workers |-> 0]
  /\ tasks = [w \in Workers |-> {}]
  /\ started = EmptyBag
  /\ released = EmptyBag

\* Spec and MutexSpec: the server with an idle worker beside it
IdleWorkers ==
  /\ InitWorkers
  /\ pass = [w \in Workers |-> ""]
  /\ serverURL = [w \in Workers |-> GoodURL]

Init == InitServer /\ InitThreads /\ IdleWorkers

(* ---------------- the server, one request at a time -------------------- *)

\* a POST or GET on /jobs, served from the first line of the handler to the last
ServeJobs ==
  \E h \in Headers, m \in Methods, body \in Bodies :
    LET r == jobsHandler(authPassword, JobQueue(queue, nextID), h, m, body)
    IN /\ (r.resp.status = 200) => (Len(enqLog) < MaxJobs)
       /\ queue' = r.q.queue
       /\ nextID' = r.q.nextID
       /\ exch' = [req |-> Request("jobs", h, m, body, ""), resp |-> r.resp]
       /\ enqLog' = IF r.resp.status = 200 THEN enqLog \o r.resp.body ELSE enqLog
       /\ UNCHANGED <<authPassword, deqLog, hvars, wvars>>

\* a GET on /poll, served from the first line of the handler to the last
ServePoll ==
  \E h \in Headers, slotsStr \in SlotStrs :
    LET r == pollHandler(authPassword, JobQueue(queue, nextID), h, slotsStr)
    IN /\ queue' = r.q.queue
       /\ nextID' = r.q.nextID
       /\ exch' = [req |-> Request("poll", h, "GET", Garbage, slotsStr),
                   resp |-> r.resp]
       /\ deqLog' = Record(deqLog, r.resp.body)
       /\ UNCHANGED <<authPassword, enqLog, hvars, wvars>>

Next == ServeJobs \/ ServePoll

Spec == Init /\ [][Next]_vars

(* ------------- the server, handler threads side by side ---------------- *)

\* the addJob calls begun and not yet at their append
Adding == {t \in Threads : hpc[t] \in {"addLock", "addID", "addInc", "addAppend"}}

\* jobsHandler up to the call of addJob, main.go:96-116. A request the handler
\* refuses touches neither the queue nor another thread: Spec has those.
jobsHandlerEnter(t) ==
  /\ hpc[t] = "idle"
  /\ Len(enqLog) + Cardinality(Adding) < MaxAdds
  /\ \E h \in Headers, m \in Methods, body \in Bodies :
       /\ jobsHandlerStatus(authPassword, h, m, body) = 0
       /\ hjob' = [hjob EXCEPT ![t] = DecodeJob(body)]
  /\ hpc' = [hpc EXCEPT ![t] = "addLock"]
  /\ UNCHANGED <<wvars, qvars, exch, mu, hn, hjobs, hresp>>

\* a queue whose operations do not exclude one another
MutexNeverHeld(m) == TRUE

\* q.Lock() goes through only when nobody holds the mutex, main.go:61 and 71
MutexFree(m) == m = 0

\* q.Lock(), main.go:61
addJobLock(t) ==
  /\ hpc[t] = "addLock"
  /\ MutexFree(mu)
  /\ mu' = t
  /\ hpc' = [hpc EXCEPT ![t] = "addID"]
  /\ UNCHANGED <<wvars, qvars, exch, hjob, hn, hjobs, hresp>>

\* j.ID = q.nextID, main.go:63
addJobSetID(t) ==
  /\ hpc[t] = "addID"
  /\ hjob' = [hjob EXCEPT ![t] = AssignID(hjob[t], nextID)]
  /\ hpc' = [hpc EXCEPT ![t] = "addInc"]
  /\ UNCHANGED <<wvars, qvars, exch, mu, hn, hjobs, hresp>>

\* q.nextID++, main.go:64
addJobInc(t) ==
  /\ hpc[t] = "addInc"
  /\ nextID' = IncrID(nextID)
  /\ hpc' = [hpc EXCEPT ![t] = "addAppend"]
  /\ UNCHANGED <<wvars, authPassword, queue, enqLog, deqLog, exch, mu, hjob, hn, hjobs,
                 hresp>>

\* q.queue = append(q.queue, j), main.go:65
addJobAppend(t) ==
  /\ hpc[t] = "addAppend"
  /\ queue' = Append(queue, hjob[t])
  /\ enqLog' = Append(enqLog, hjob[t])
  /\ hpc' = [hpc EXCEPT ![t] = "addUnlock"]
  /\ UNCHANGED <<wvars, authPassword, nextID, deqLog, exch, mu, hjob, hn, hjobs, hresp>>

\* the deferred q.Unlock(), main.go:62
addJobUnlock(t) ==
  /\ hpc[t] = "addUnlock"
  /\ mu' = 0
  /\ hpc' = [hpc EXCEPT ![t] = "jobsResp"]
  /\ UNCHANGED <<wvars, qvars, exch, hjob, hn, hjobs, hresp>>

\* the response of a successful POST: the handler's job, main.go:117-122
jobsRespond(t) ==
  /\ hpc[t] = "jobsResp"
  /\ hresp' = [hresp EXCEPT ![t] = Response(200, <<hjob[t]>>)]
  /\ hpc' = [hpc EXCEPT ![t] = "done"]
  /\ UNCHANGED <<wvars, qvars, exch, mu, hjob, hn, hjobs>>

\* pollHandler up to the call of getJobs, main.go:130-151
pollHandlerEnter(t) ==
  /\ hpc[t] = "idle"
  /\ \E h \in Headers, slotsStr \in SlotStrs :
       /\ pollHandlerStatus(authPassword, h, slotsStr) = 0
       /\ hn' = [hn EXCEPT ![t] = Atoi(slotsStr)]
  /\ hpc' = [hpc EXCEPT ![t] = "getLock"]
  /\ UNCHANGED <<wvars, qvars, exch, mu, hjob, hjobs, hresp>>

\* q.Lock(), main.go:71
getJobsLock(t) ==
  /\ hpc[t] = "getLock"
  /\ MutexFree(mu)
  /\ mu' = t
  /\ hpc' = [hpc EXCEPT ![t] = "getClamp"]
  /\ UNCHANGED <<wvars, qvars, exch, hjob, hn, hjobs, hresp>>

\* if n > len(q.queue) { n = len(q.queue) }, main.go:73-75
getJobsClamp(t) ==
  /\ hpc[t] = "getClamp"
  /\ hn' = [hn EXCEPT ![t] = Clamp(hn[t], Len(queue))]
  /\ hpc' = [hpc EXCEPT ![t] = "getSlice"]
  /\ UNCHANGED <<wvars, qvars, exch, mu, hjob, hjobs, hresp>>

\* a slice expression out of range panics: the deferred Unlock runs and
\* net/http drops the connection
getJobsPanic(t) ==
  /\ mu' = 0
  /\ hresp' = [hresp EXCEPT ![t] = Aborted]
  /\ hpc' = [hpc EXCEPT ![t] = "done"]
  /\ UNCHANGED <<wvars, qvars, exch, hjob, hn, hjobs>>

\* jobs := q.queue[:n], main.go:76
getJobsSlice(t) ==
  /\ hpc[t] = "getSlice"
  /\ IF hn[t] > Len(queue)
       THEN getJobsPanic(t)
       ELSE /\ hjobs' = [hjobs EXCEPT ![t] = SliceTo(queue, hn[t])]
            /\ hpc' = [hpc EXCEPT ![t] = "getCut"]
            /\ UNCHANGED <<wvars, qvars, exch, mu, hjob, hn, hresp>>

\* q.queue = q.queue[n:], main.go:77
getJobsCut(t) ==
  /\ hpc[t] = "getCut"
  /\ IF hn[t] > Len(queue)
       THEN getJobsPanic(t)
       ELSE /\ queue' = SliceFrom(queue, hn[t])
            /\ deqLog' = Record(deqLog, hjobs[t])
            /\ hpc' = [hpc EXCEPT ![t] = "getUnlock"]
            /\ UNCHANGED <<wvars, authPassword, nextID, enqLog, exch, mu, hjob, hn,
                           hjobs, hresp>>

\* the deferred q.Unlock(), main.go:72
getJobsUnlock(t) ==
  /\ hpc[t] = "getUnlock"
  /\ mu' = 0
  /\ hpc' = [hpc EXCEPT ![t] = "pollResp"]
  /\ UNCHANGED <<wvars, qvars, exch, hjob, hn, hjobs, hresp>>

\* the response of a poll: the jobs getJobs returned, main.go:151-155
pollRespond(t) ==
  /\ hpc[t] = "pollResp"
  /\ hresp' = [hresp EXCEPT ![t] = Response(200, hjobs[t])]
  /\ hpc' = [hpc EXCEPT ![t] = "done"]
  /\ UNCHANGED <<wvars, qvars, exch, mu, hjob, hn, hjobs>>

\* the handler returns; its thread serves the next request with fresh locals
handlerReturn(t) ==
  /\ hpc[t] = "done"
  /\ hpc' = [hpc EXCEPT ![t] = "idle"]
  /\ hjob' = [hjob EXCEPT ![t] = ZeroJob]
  /\ hn' = [hn EXCEPT ![t] = 0]
  /\ hjobs' = [hjobs EXCEPT ![t] = <<>>]
  /\ hresp' = [hresp EXCEPT ![t] = NoResponse]
  /\ UNCHANGED <<wvars, qvars, exch, mu>>

MutexNext ==
  \/ \E t \in Threads : jobsHandlerEnter(t)
  \/ \E t \in Threads : addJobLock(t)
  \/ \E t \in Threads : addJobSetID(t)
  \/ \E t \in Threads : addJobInc(t)
  \/ \E t \in Threads : addJobAppend(t)
  \/ \E t \in Threads : addJobUnlock(t)
  \/ \E t \in Threads : jobsRespond(t)
  \/ \E t \in Threads : pollHandlerEnter(t)
  \/ \E t \in Threads : getJobsLock(t)
  \/ \E t \in Threads : getJobsClamp(t)
  \/ \E t \in Threads : getJobsSlice(t)
  \/ \E t \in Threads : getJobsCut(t)
  \/ \E t \in Threads : getJobsUnlock(t)
  \/ \E t \in Threads : pollRespond(t)
  \/ \E t \in Threads : handlerReturn(t)

MutexSpec == Init /\ [][MutexNext]_vars

(* --------------------------- the worker -------------------------------- *)

\* the -password flag on the wire: the header is set only when the flag is
\* not empty, main.go:253-255
HeaderOf(p) == IF p = "" THEN Absent ELSE p

\* http.NewRequest fails when the URL does not parse, main.go:248
NewRequestErr(url) == url # GoodURL

\* a getFreeSlots that does not look at the slots taken
getFreeSlotsIgnoresTaken(slots, len) == slots

\* getFreeSlots, main.go:234-238
getFreeSlots(slots, len) == slots - len

\* a dispatch loop that takes two slots for one job
AcquireTwice(len) == len + 2

\* a dispatch loop that starts the goroutine without taking a slot
AcquireNothing(len) == len

\* sem <- struct{}{}, main.go:269
Acquire(len) == len + 1

\* a goroutine that ends without giving its slot back
ReleaseNothing(len) == len

\* <-sem, main.go:272
Release(len) == len - 1

\* a command started without the context: the deadline kills nothing
KillsNever(done) == FALSE

\* exec.CommandContext kills the subprocess once the context is done,
\* main.go:195
Kills(done) == done

\* a goroutine as the dispatch loop creates it, main.go:270
NewTask(id) ==
  [id |-> id, pc |-> "go", ctxDone |-> FALSE, cause |-> "none", outcome |-> "none"]

\* err of cmd.Run(), main.go:202, by what ended the run: nil only for exit 0
RunErr(cause) == cause # "exit0"

\* the branch jobRunner logs, main.go:203-214
Outcome(cause, done) ==
  IF RunErr(cause)
    THEN IF done THEN "TimedOut" ELSE "Failed"
    ELSE "Succeeded"

TaskOf(w, id) == {tk \in tasks[w] : tk.id = id}

\* the request of the add subcommand, main.go:336-358: a job without id, the
\* header set only when the -password flag is not empty
AddRequest(p, cmdStr, timeout) ==
  Request("jobs", HeaderOf(p), "POST", Json(0, cmdStr, timeout), "")

\* the add subcommand run with some flags, and its POST served by the server,
\* main.go:317-378; a run that is refused leaves the server as it was
runAddJob ==
  /\ Len(enqLog) < MaxJobs
  /\ \E p \in {"", Secret}, cmdStr \in AddCmds, timeout \in AddTimeouts :
       LET req == AddRequest(p, cmdStr, timeout)
           r == jobsHandler(authPassword, JobQueue(queue, nextID), req.pass,
                            req.method, req.body)
       IN /\ cmdStr # ""
          /\ r.resp.status = 200
          /\ queue' = r.q.queue
          /\ nextID' = r.q.nextID
          /\ enqLog' = enqLog \o r.resp.body
  /\ UNCHANGED <<authPassword, deqLog, exch, hvars, wvars>>

\* the top of the loop, main.go:242-243: freeSlots, and no request without a
\* free slot
WorkerTop(w) ==
  /\ wpc[w] = "top"
  /\ IF getFreeSlots(Slots, sem[w]) > 0
       THEN /\ freeSlots' = [freeSlots EXCEPT ![w] = getFreeSlots(Slots, sem[w])]
            /\ wpc' = [wpc EXCEPT ![w] = "request"]
       ELSE /\ freeSlots' = [freeSlots EXCEPT ![w] = 0]
            /\ wpc' = [wpc EXCEPT ![w] = "sleep"]
  /\ UNCHANGED <<qvars, exch, hvars, pass, serverURL, jobs, sem, tasks, started,
                 released>>

\* building the request, main.go:244-255; `continue` when that fails.
\* freeSlots lives for one turn of the loop: it reads 0 between turns.
WorkerNewRequest(w) ==
  /\ wpc[w] = "request"
  /\ IF NewRequestErr(serverURL[w])
       THEN /\ wpc' = [wpc EXCEPT ![w] = "top"]
            /\ freeSlots' = [freeSlots EXCEPT ![w] = 0]
       ELSE /\ wpc' = [wpc EXCEPT ![w] = "do"]
            /\ UNCHANGED freeSlots
  /\ UNCHANGED <<qvars, exch, hvars, pass, serverURL, jobs, sem, tasks,
                 started, released>>

\* client.Do fails before the request reaches the server, main.go:257-260
WorkerDoFails(w) ==
  /\ wpc[w] = "do"
  /\ wpc' = [wpc EXCEPT ![w] = "sleep"]
  /\ freeSlots' = [freeSlots EXCEPT ![w] = 0]
  /\ UNCHANGED <<qvars, exch, hvars, pass, serverURL, jobs, sem, tasks,
                 started, released>>

\* the poll request of this turn of the loop, main.go:244-255
PollRequest(w) ==
  Request("poll", HeaderOf(pass[w]), "GET", Garbage, Itoa(freeSlots[w]))

\* client.Do reaches the server, which serves the poll, main.go:257-267. The
\* answer is lost on the way back (client.Do fails), or does not decode (an
\* error answer never does, a list of jobs may arrive garbled), or decodes.
WorkerDoServed(w) ==
  /\ wpc[w] = "do"
  /\ LET r == pollHandler(authPassword, JobQueue(queue, nextID), PollRequest(w).pass,
                          PollRequest(w).slots)
     IN /\ queue' = r.q.queue
        /\ nextID' = r.q.nextID
        /\ deqLog' = Record(deqLog, r.resp.body)
        /\ \E fate \in {"lost", "garbled", "decoded"} :
             IF fate = "decoded" /\ r.resp.status = 200
               THEN /\ jobs' = [jobs EXCEPT ![w] = r.resp.body]
                    /\ wpc' = [wpc EXCEPT ![w] = "dispatch"]
                    /\ UNCHANGED freeSlots
               ELSE /\ jobs' = jobs
                    /\ wpc' = [wpc EXCEPT ![w] = "sleep"]
                    /\ freeSlots' = [freeSlots EXCEPT ![w] = 0]
  /\ UNCHANGED <<authPassword, enqLog, exch, hvars, pass, serverURL, sem,
                 tasks, started, released>>

\* one turn of the dispatch loop, main.go:268-278: the send blocks while sem
\* is full
WorkerDispatch(w) ==
  /\ wpc[w] = "dispatch"
  /\ jobs[w] # <<>>
  /\ sem[w] < Slots
  /\ sem' = [sem EXCEPT ![w] = Acquire(sem[w])]
  /\ tasks' = [tasks EXCEPT ![w] = tasks[w] \cup {NewTask(jobs[w][1].id)}]
  /\ jobs' = [jobs EXCEPT ![w] = Tail(jobs[w])]
  /\ UNCHANGED <<qvars, exch, hvars, pass, serverURL, wpc, freeSlots, started,
                 released>>

\* the dispatch loop ends, main.go:278-280
WorkerDispatched(w) ==
  /\ wpc[w] = "dispatch"
  /\ jobs[w] = <<>>
  /\ wpc' = [wpc EXCEPT ![w] = "sleep"]
  /\ freeSlots' = [freeSlots EXCEPT ![w] = 0]
  /\ UNCHANGED <<qvars, exch, hvars, pass, serverURL, jobs, sem, tasks,
                 started, released>>

\* time.Sleep, main.go:283
WorkerSleep(w) ==
  /\ wpc[w] = "sleep"
  /\ wpc' = [wpc EXCEPT ![w] = "top"]
  /\ UNCHANGED <<qvars, exch, hvars, pass, serverURL, freeSlots, jobs, sem, tasks,
                 started, released>>

\* the task of job id on worker w goes from tk to next
Step(w, tk, next) ==
  tasks' = [tasks EXCEPT ![w] = (tasks[w] \ {tk}) \cup {next}]

\* the goroutine runs jobRunner up to cmd.Run(), main.go:275-202: the
\* subprocess starts, or fails to
RunStart(w, id) ==
  /\ \E tk \in TaskOf(w, id) :
       /\ tk.pc = "go"
       /\ \/ Step(w, tk, [tk EXCEPT !.pc = "running"])
          \/ Step(w, tk, [tk EXCEPT !.pc = "returned", !.cause = "spawn"])
  /\ started' = started (+) SetToBag({id})
  /\ UNCHANGED <<qvars, exch, hvars, pass, serverURL, wpc, freeSlots, jobs, sem,
                 released>>

\* the subprocess exits by itself and cmd.Run() returns, main.go:202
ProcExit(w, id) ==
  /\ \E tk \in TaskOf(w, id) :
       /\ tk.pc = "running"
       /\ \E c \in {"exit0", "exitN"} :
            Step(w, tk, [tk EXCEPT !.pc = "returned", !.cause = c])
  /\ UNCHANGED <<qvars, exch, hvars, pass, serverURL, wpc, freeSlots, jobs, sem,
                 started, released>>

\* the deadline of the job's context passes, main.go:191; from then on
\* ctx.Err() is DeadlineExceeded
Deadline(w, id) ==
  /\ \E tk \in TaskOf(w, id) :
       /\ tk.pc \in {"running", "returned"}
       /\ ~tk.ctxDone
       /\ Step(w, tk, [tk EXCEPT !.ctxDone = TRUE])
  /\ UNCHANGED <<qvars, exch, hvars, pass, serverURL, wpc, freeSlots, jobs, sem,
                 started, released>>

\* the context being done, the subprocess is killed and cmd.Run() returns,
\* main.go:195 and 202
Kill(w, id) ==
  /\ \E tk \in TaskOf(w, id) :
       /\ tk.pc = "running"
       /\ Kills(tk.ctxDone)
       /\ Step(w, tk, [tk EXCEPT !.pc = "returned", !.cause = "deadline"])
  /\ UNCHANGED <<qvars, exch, hvars, pass, serverURL, wpc, freeSlots, jobs, sem,
                 started, released>>

\* jobRunner reads ctx.Err() and logs how the job ended, main.go:203-214
Classify(w, id) ==
  /\ \E tk \in TaskOf(w, id) :
       /\ tk.pc = "returned"
       /\ Step(w, tk, [tk EXCEPT !.pc = "logged",
                                 !.outcome = Outcome(tk.cause, tk.ctxDone)])
  /\ UNCHANGED <<qvars, exch, hvars, pass, serverURL, wpc, freeSlots, jobs, sem,
                 started, released>>

\* jobRunner has returned: the deferred function gives the slot back and the
\* goroutine ends, main.go:271-274; the receive blocks while sem is empty
SlotFreed(w, id) ==
  /\ \E tk \in TaskOf(w, id) :
       /\ tk.pc = "logged"
       /\ sem[w] > 0
       /\ sem' = [sem EXCEPT ![w] = Release(sem[w])]
       /\ tasks' = [tasks EXCEPT ![w] = tasks[w] \ {tk}]
  /\ released' = released (+) SetToBag({id})
  /\ UNCHANGED <<qvars, exch, hvars, pass, serverURL, wpc, freeSlots, jobs,
                 started>>

\* what the goroutine of job id does by itself, the scheduler, the timer and
\* the kill included; the subprocess exiting by itself is not part of it
TaskRuns(w, id) ==
  \/ RunStart(w, id)
  \/ Deadline(w, id)
  \/ Kill(w, id)
  \/ Classify(w, id)
  \/ SlotFreed(w, id)

WorkerNext ==
  \/ runAddJob
  \/ \E w \in Workers : WorkerTop(w)
  \/ \E w \in Workers : WorkerNewRequest(w)
  \/ \E w \in Workers : WorkerDoFails(w)
  \/ \E w \in Workers : WorkerDoServed(w)
  \/ \E w \in Workers : WorkerDispatch(w)
  \/ \E w \in Workers : WorkerDispatched(w)
  \/ \E w \in Workers : WorkerSleep(w)
  \/ \E w \in Workers, id \in JobIds : RunStart(w, id)
  \/ \E w \in Workers, id \in JobIds : ProcExit(w, id)
  \/ \E w \in Workers, id \in JobIds : Deadline(w, id)
  \/ \E w \in Workers, id \in JobIds : Kill(w, id)
  \/ \E w \in Workers, id \in JobIds : Classify(w, id)
  \/ \E w \in Workers, id \in JobIds : SlotFreed(w, id)

\* a worker of any flags beside a server that asks for the secret
WorkerInit ==
  /\ InitServer /\ InitThreads /\ InitWorkers
  /\ authPassword = Secret

WorkerSpec == WorkerInit /\ [][WorkerNext]_vars

\* the Go scheduler runs every goroutine that can run, the timer of a context
\* fires, and a killed subprocess dies
LiveWorkerSpec ==
  /\ WorkerSpec
  /\ \A w \in Workers, id \in JobIds : WF_vars(TaskRuns(w, id))

\* one step of the poll loop of worker w, wherever it stands
WorkerLoop(w) ==
  \/ WorkerTop(w)
  \/ WorkerNewRequest(w)
  \/ WorkerDoFails(w)
  \/ WorkerDoServed(w)
  \/ WorkerDispatch(w)
  \/ WorkerDispatched(w)
  \/ WorkerSleep(w)

\* LiveWorkerSpec, and the poll loop goes on as well: its goroutine is
\* scheduled, its sleep ends, and client.Do comes back with an answer or an
\* error
LiveLoopSpec ==
  /\ LiveWorkerSpec
  /\ \A w \in Workers : WF_vars(WorkerLoop(w))

\* client.Do over a transport that delivers: the poll reaches the server and
\* its answer comes back and decodes, main.go:257-267
WorkerDoAnswered(w) ==
  /\ WorkerDoServed(w)
  /\ wpc'[w] = "dispatch"

\* one step of the poll loop over such a transport
ReliableLoop(w) ==
  \/ WorkerTop(w)
  \/ WorkerNewRequest(w)
  \/ WorkerDoAnswered(w)
  \/ WorkerDispatch(w)
  \/ WorkerDispatched(w)
  \/ WorkerSleep(w)

\* workers started with the server's URL and its secret
ReliableInit ==
  /\ WorkerInit
  /\ pass = [w \in Workers |-> Secret]
  /\ serverURL = [w \in Workers |-> GoodURL]

ReliableNext ==
  \/ runAddJob
  \/ \E w \in Workers : WorkerTop(w)
  \/ \E w \in Workers : WorkerNewRequest(w)
  \/ \E w \in Workers : WorkerDoAnswered(w)
  \/ \E w \in Workers : WorkerDispatch(w)
  \/ \E w \in Workers : WorkerDispatched(w)
  \/ \E w \in Workers : WorkerSleep(w)
  \/ \E w \in Workers, id \in JobIds : RunStart(w, id)
  \/ \E w \in Workers, id \in JobIds : ProcExit(w, id)
  \/ \E w \in Workers, id \in JobIds : Deadline(w, id)
  \/ \E w \in Workers, id \in JobIds : Kill(w, id)
  \/ \E w \in Workers, id \in JobIds : Classify(w, id)
  \/ \E w \in Workers, id \in JobIds : SlotFreed(w, id)

\* fair scheduling of the poll loop and of the job goroutines, timers and
\* kills, over a transport that delivers, with matching credentials
ReliableSpec ==
  /\ ReliableInit /\ [][ReliableNext]_vars
  /\ \A w \in Workers : WF_vars(ReliableLoop(w))
  /\ \A w \in Workers, id \in JobIds : WF_vars(TaskRuns(w, id))

(* ------------------------- claims on the queue ------------------------- *)

IsPrefix(s, t) == Len(s) <= Len(t) /\ s = SubSeq(t, 1, Len(s))
RECURSIVE Flatten(_)
Flatten(ss) == IF ss = <<>> THEN <<>> ELSE ss[1] \o Flatten(Tail(ss))

\* every job some getJobs call has returned, in the order they left the queue
Returned == Flatten(deqLog)

\* C1: whatever the interleaving of getJobs and addJob calls, no job is in the
\* results of two getJobs calls (nor twice in one), and at every instant the
\* jobs ever enqueued are exactly the pending ones plus the returned ones, no
\* job being both.
C1_NoDuplicationNoLoss ==
  /\ \A i, j \in DOMAIN Returned : i # j => Returned[i] # Returned[j]
  /\ Range(enqLog) = Range(queue) \cup Range(Returned)
  /\ Range(queue) \cap Range(Returned) = {}
  /\ Len(enqLog) = Len(queue) + Len(Returned)

\* two getJobs calls side by side have both returned a job while a third job
\* is added
C1_Witness ==
  /\ \E t, u \in Threads :
       /\ t # u
       /\ hpc[t] = "pollResp" /\ hpc[u] = "pollResp"
       /\ hjobs[t] # <<>> /\ hjobs[u] # <<>>
  /\ Len(deqLog) = 2

\* C2: the ids the queue assigns are 1..N in the order the enqueues take
\* effect, without gap or repeat, also when submitters call concurrently, and
\* the response of a submitter carries the job stored for it, id included.
C2_IdsSequential ==
  /\ \A i \in DOMAIN enqLog : enqLog[i].id = i
  /\ \A t \in Threads :
       (hpc[t] \in {"addUnlock", "jobsResp"} \/ (hpc[t] = "done" /\ hjob[t] # ZeroJob))
         => /\ hjob[t].id \in DOMAIN enqLog
            /\ enqLog[hjob[t].id] = hjob[t]
  /\ \A t \in Threads :
       (hpc[t] = "done" /\ hjob[t] # ZeroJob) => hresp[t] = Response(200, <<hjob[t]>>)

\* two submissions in flight at once on an empty queue: one has its answer,
\* the other has enqueued and has not answered yet, and they hold ids 1 and 2
C2_Witness ==
  \E t, u \in Threads :
    /\ hpc[t] = "done" /\ hresp[t].status = 200 /\ hjob[t].command = "a"
    /\ hpc[u] = "jobsResp" /\ hjob[u].command = "b"
    /\ {hjob[t].id, hjob[u].id} = {1, 2}
    /\ deqLog = <<>>

\* C3: jobs leave the queue in FIFO order: the results of all getJobs calls,
\* put end to end in the order the calls take effect, are a prefix of the jobs
\* in the order they were enqueued, and the pending jobs are the rest.
C3_Fifo ==
  /\ IsPrefix(Returned, enqLog)
  /\ Returned \o queue = enqLog

\* two pollers have each taken one job, the second one the later job
C3_Witness ==
  /\ Len(deqLog) = 2
  /\ Len(deqLog[1]) = 1 /\ Len(deqLog[2]) = 1
  /\ deqLog[1][1].id = 1 /\ deqLog[2][1].id = 2

(* ------------------------ claims on the handlers ----------------------- *)

\* the request just served is a well-formed, authorised Submit of a job with an
\* empty command or a timeout <= 0
BadJobServed(e, pw) ==
  /\ e.req.kind = "jobs" /\ e.req.method = "POST" /\ e.req.body.json
  /\ pw = "" \/ e.req.pass = pw
  /\ e.req.body.command = "" \/ e.req.body.timeout <= 0

\* C9: a Submit of a job with an empty command or a timeout <= 0 is answered
\* with a client error and leaves the pending sequence and the id counter as
\* they were, so the ids of the accepted jobs stay 1, 2, ... whatever was
\* rejected in between.
C9_RejectedSubmit ==
  /\ [](BadJobServed(exch, authPassword) => exch.resp = Response(400, <<>>))
  /\ [](nextID = Len(enqLog) + 1 /\ \A i \in DOMAIN enqLog : enqLog[i].id = i)
  /\ [](\A h \in Headers, body \in Bodies :
          BadJobServed([req |-> Request("jobs", h, "POST", body, "")], authPassword)
            => jobsHandler(authPassword, JobQueue(queue, nextID), h, "POST", body)
                 = [resp |-> Response(400, <<>>), q |-> JobQueue(queue, nextID)])
  /\ [][BadJobServed(exch', authPassword) /\ exch' # exch
          => queue' = queue /\ nextID' = nextID /\ enqLog' = enqLog]_vars

\* a job with timeout 0 has just been refused on a queue that holds a job and
\* that has handed out another
C9_Witness ==
  /\ BadJobServed(exch, authPassword)
  /\ exch.req.body.command = "a" /\ exch.req.body.timeout = 0
  /\ exch.resp.status = 400
  /\ nextID = 3 /\ Len(queue) = 1

\* the request just served does not carry the configured secret
Unauthenticated(e, pw) ==
  /\ e.req.kind \in {"jobs", "poll"}
  /\ pw # ""
  /\ e.req.pass = Absent \/ e.req.pass # pw

\* C10: with a secret configured, a Submit or a Poll whose X-Job-Password is
\* absent or differs from the secret is answered 401 and leaves the pending
\* sequence and the id counter as they were; with no secret configured no
\* request is answered 401, whatever its header.
C10_Authentication ==
  /\ [](Unauthenticated(exch, authPassword) => exch.resp = Response(401, <<>>))
  /\ [](authPassword = "" => exch.resp.status # 401)
  /\ [](\A h \in Headers : ~checkAuth(authPassword, h) =>
          /\ \A m \in Methods, body \in Bodies :
               jobsHandler(authPassword, JobQueue(queue, nextID), h, m, body)
                 = [resp |-> Response(401, <<>>), q |-> JobQueue(queue, nextID)]
          /\ \A slotsStr \in SlotStrs :
               pollHandler(authPassword, JobQueue(queue, nextID), h, slotsStr)
                 = [resp |-> Response(401, <<>>), q |-> JobQueue(queue, nextID)])
  /\ [](\A h \in Headers : authPassword = "" => checkAuth(authPassword, h))
  /\ [][Unauthenticated(exch', authPassword) /\ exch' # exch
          => queue' = queue /\ nextID' = nextID /\ enqLog' = enqLog
             /\ deqLog' = deqLog]_vars

\* a poll for two jobs without the header has just been refused while two jobs
\* are pending
C10_Witness ==
  /\ authPassword = Secret
  /\ exch.req.kind = "poll" /\ exch.req.pass = Absent /\ exch.req.slots = "2"
  /\ exch.resp.status = 401
  /\ Len(queue) = 2

(* ------------------------ claims on the worker ------------------------- *)

\* the goroutines of worker w whose job has not reached its terminal state
Executing(w) == {tk \in tasks[w] : tk.pc \in {"go", "running", "returned"}}

\* C4: on a worker with `slots` slots, at most `slots` jobs are executing at
\* any instant, and the number of taken slots stays between 0 and `slots`.
C4_SlotBound ==
  \A w \in Workers :
    /\ Cardinality(Executing(w)) <= Slots
    /\ sem[w] >= 0 /\ sem[w] <= Slots

\* every slot is taken by a job whose subprocess runs, and one more job waits
\* in the queue
C4_Witness ==
  \E w \in Workers :
    /\ sem[w] = Slots
    /\ Cardinality({tk \in tasks[w] : tk.pc = "running"}) = Slots
    /\ Len(queue) = 1

\* C5: a job that holds a slot gives it back in the end, once and only once,
\* however the job ended: the step that ends a logged job's goroutine lowers
\* the number of taken slots by one, so that a later job can take the slot.
C5_SlotReleased ==
  /\ [](\A id \in JobIds : CopiesIn(id, released) <= 1)
  /\ \A w \in Workers, id \in JobIds :
       (TaskOf(w, id) # {}) ~> (TaskOf(w, id) = {} /\ CopiesIn(id, released) = 1)
  /\ [][\A w \in Workers : \A tk \in tasks[w] :
          (tk.pc = "logged" /\ tk \notin tasks'[w])
            => /\ sem'[w] = sem[w] - 1
               /\ tk.outcome \in {"Succeeded", "Failed", "TimedOut"}
               /\ CopiesIn(tk.id, released') = 1]_vars

\* two jobs have given their slots back and the third job holds one of them
C5_Witness ==
  \E w \in Workers :
    /\ CopiesIn(1, released) = 1 /\ CopiesIn(2, released) = 1
    /\ TaskOf(w, 3) # {}
    /\ sem[w] = 1

\* C6: a job that has started reaches a terminal state: once the deadline has
\* passed its subprocess does not stay alive, a subprocess the deadline killed
\* makes the job TimedOut, and this needs no step of the poll loop or of
\* another job.
C6_JobTerminates ==
  /\ \A w \in Workers, id \in JobIds :
       (\E tk \in TaskOf(w, id) : tk.pc \in {"running", "returned"})
         ~> (\E tk \in TaskOf(w, id) : tk.pc = "logged")
  /\ \A w \in Workers, id \in JobIds :
       (\E tk \in TaskOf(w, id) : tk.pc = "running" /\ tk.ctxDone)
         ~> (\E tk \in TaskOf(w, id) : tk.pc # "running")
  /\ [](\A w \in Workers : \A tk \in tasks[w] :
          (tk.pc = "logged" /\ tk.cause = "deadline") => tk.outcome = "TimedOut")

\* a job the deadline killed is logged as timed out
C6_Witness ==
  \E w \in Workers : \E tk \in tasks[w] :
    tk.pc = "logged" /\ tk.cause = "deadline" /\ tk.outcome = "TimedOut"

\* C7: the terminal state matches what ended the job: Failed when the
\* subprocess exited non-zero or did not start and the deadline did not kill
\* it, Succeeded when it exited zero, TimedOut only when the deadline killed it.
C7_OutcomeMatchesCause ==
  \A w \in Workers : \A tk \in tasks[w] :
    tk.pc = "logged" =>
      /\ tk.cause \in {"exitN", "spawn"} => tk.outcome = "Failed"
      /\ tk.cause = "exit0" => tk.outcome = "Succeeded"
      /\ tk.outcome = "TimedOut" => tk.cause = "deadline"

Ids(js) == {js[i].id : i \in DOMAIN js}

\* C8: a job begins execution at most once: a job some getJobs call returned
\* is never pending again nor returned again, whether or not its worker ever
\* got it, and whatever its end.
C8_AtMostOnce ==
  /\ \A id \in JobIds : CopiesIn(id, started) <= 1
  /\ \A i, j \in DOMAIN Returned : i # j => Returned[i].id # Returned[j].id
  /\ Ids(queue) \cap Ids(Returned) = {}
  /\ \A w \in Workers : Ids(jobs[w]) \cup {tk.id : tk \in tasks[w]} \subseteq Ids(Returned)
  /\ BagToSet(started) \cup BagToSet(released) \subseteq Ids(Returned)

\* job 1 left the queue in an answer the worker never got, job 2 ran to its
\* end afterwards, job 3 is pending
C8_Witness ==
  /\ 1 \in Ids(Returned) /\ ~BagIn(1, started)
  /\ \A w \in Workers : 1 \notin Ids(jobs[w]) /\ TaskOf(w, 1) = {}
  /\ BagIn(2, released)
  /\ Ids(queue) = {3}

(* ------------------- claims on getJobs and /poll ----------------------- *)

Min(a, b) == IF a < b THEN a ELSE b

\* the request just served is a poll that reached getJobs
PollServed(e) == e.req.kind = "poll" /\ e.resp.status = 200

\* C11: getJobs(n) on a queue of k pending jobs returns the first min(n, k)
\* of them and leaves the other k - min(n, k) pending in their order; with
\* k < n the queue is left empty, on an empty queue the result is empty, and
\* the call does not fail.
C11_DequeueCount ==
  /\ [](\A n \in 0 .. MaxJobs + 1 :
          LET r == getJobs(JobQueue(queue, nextID), n)
              k == Len(queue)
          IN /\ Len(r.jobs) = Min(n, k)
             /\ Len(r.q.queue) = k - Min(n, k)
             /\ r.jobs \o r.q.queue = queue
             /\ r.q.nextID = nextID
             /\ k < n => r.jobs = queue /\ r.q.queue = <<>>
             /\ k = 0 => r.jobs = <<>>)
  /\ [](exch.resp # Aborted)
  /\ [][PollServed(exch') /\ exch' # exch
          => /\ Len(exch'.resp.body) = Min(Atoi(exch'.req.slots), Len(queue))
             /\ exch'.resp.body \o queue' = queue]_vars

\* a poll for two jobs on a queue of one has returned that job and left the
\* queue empty
C11_Witness ==
  /\ PollServed(exch) /\ exch.req.slots = "2"
  /\ Len(exch.resp.body) = 1
  /\ queue = <<>>
  /\ nextID = 2

\* the values of `slots` that are absent, not a number, or less than 1
BadSlotStrs == {"", "x", "-1", "0"}

\* the request just served is an authorised poll with such a value
BadPollServed(e, pw) ==
  /\ e.req.kind = "poll"
  /\ pw = "" \/ e.req.pass = pw
  /\ e.req.slots \in BadSlotStrs

\* C12: a poll whose `slots` is absent, not a number or less than 1 is
\* answered with a client error and takes no job off the queue; a poll with
\* slots = n >= 1 takes off and returns n jobs at most.
C12_PollSlots ==
  /\ [](\A h \in Headers, s \in SlotStrs :
          checkAuth(authPassword, h) =>
            LET r == pollHandler(authPassword, JobQueue(queue, nextID), h, s)
            IN IF s \in BadSlotStrs
                 THEN r = [resp |-> Response(400, <<>>), q |-> JobQueue(queue, nextID)]
                 ELSE /\ r.resp.status = 200
                      /\ Atoi(s) >= 1
                      /\ Len(r.resp.body) <= Atoi(s)
                      /\ r.resp.body \o r.q.queue = queue)
  /\ [](BadPollServed(exch, authPassword) => exch.resp = Response(400, <<>>))
  /\ [][BadPollServed(exch', authPassword) /\ exch' # exch
          => queue' = queue /\ nextID' = nextID /\ deqLog' = deqLog]_vars
  /\ [][PollServed(exch') /\ exch' # exch
          => /\ Len(queue) - Len(queue') <= Atoi(exch'.req.slots)
             /\ Len(exch'.resp.body) = Len(queue) - Len(queue')]_vars

\* a poll for 0 jobs has just been refused while two jobs are pending
C12_Witness ==
  /\ BadPollServed(exch, authPassword) /\ exch.req.slots = "0"
  /\ exch.resp.status = 400
  /\ Len(queue) = 2

(* --------------------------- claims on ids ----------------------------- *)

\* the request just served is a Submit the server accepted
SubmitAccepted(e) == e.req.kind = "jobs" /\ e.resp.status = 200

\* C13: the id of a job is given once, by the queue when the job is enqueued,
\* never by the submitter: an id sent in the job description is replaced by
\* the queue's next id, and id, command and timeout are the same in the answer
\* to the submitter, in the pending queue and in the answer to a poller.
C13_IdAssignedByQueue ==
  /\ [](\A h \in Headers, body \in Payloads :
          LET r == jobsHandler(authPassword, JobQueue(queue, nextID), h, "POST", body)
          IN r.resp.status = 200 =>
               /\ r.resp.body = <<[id |-> nextID, command |-> body.command,
                                   timeout |-> body.timeout]>>
               /\ r.q.queue = queue \o r.resp.body)
  /\ [](Returned \o queue = enqLog)
  /\ [](\A i \in DOMAIN enqLog : enqLog[i].id = i)
  /\ [][SubmitAccepted(exch') /\ exch' # exch
          => /\ exch'.resp.body[1].id = nextID
             /\ exch'.resp.body[1].command = exch'.req.body.command
             /\ exch'.resp.body[1].timeout = exch'.req.body.timeout
             /\ queue' = queue \o exch'.resp.body
             /\ enqLog' = enqLog \o exch'.resp.body]_vars
  /\ [][IsPrefix(enqLog, enqLog')]_vars

\* a job sent with id 7 has just been accepted as job 2 and is pending, after
\* job 1 went to a poller
C13_Witness ==
  /\ SubmitAccepted(exch) /\ exch.req.body.id = 7
  /\ exch.resp.body[1].id = 2
  /\ Len(Returned) = 1 /\ Returned[1].id = 1
  /\ Len(queue) = 1 /\ queue[1] = exch.resp.body[1]

\* the ids addJob has given out: those of the jobs appended and those of the
\* addJob calls that hold their id and have not appended yet
Assigned ==
  Ids(enqLog) \cup {hjob[t].id : t \in {u \in Threads : hpc[u] \in {"addInc", "addAppend"}}}

IsSuffix(s, t) == Len(s) <= Len(t) /\ s = SubSeq(t, Len(t) - Len(s) + 1, Len(t))

\* C14: whenever no addJob or getJobs call is inside its critical section the
\* ids given out so far are exactly 1 .. nextID-1; nextID never decreases; the
\* pending jobs carry distinct ids in increasing order, all below nextID; and
\* the queue changes only by an append or by losing a prefix.
C14_QueueInvariant ==
  /\ [](mu = 0 => Assigned = 1 .. (nextID - 1))
  /\ [](Assigned \subseteq 1 .. nextID)
  /\ [](\A i, j \in DOMAIN queue : i < j => queue[i].id < queue[j].id)
  /\ [](\A i \in DOMAIN queue : queue[i].id >= 1 /\ queue[i].id < nextID)
  /\ [][nextID' >= nextID]_vars
  /\ [][\/ IsSuffix(queue', queue)
        \/ Len(queue') = Len(queue) + 1 /\ IsPrefix(queue, queue')]_vars

\* jobs 1 and 2 were enqueued and a poller, about to answer, has taken job 1
\* off the front
C14_Witness ==
  /\ mu = 0 /\ nextID = 3
  /\ Len(queue) = 1 /\ queue[1].id = 2
  /\ \E t \in Threads : hpc[t] = "pollResp" /\ Ids(hjobs[t]) = {1}

(* ----------------------- claims on the poll loop ----------------------- *)

C16_NeverOvercommits ==
  \A w \in Workers :
    /\ sem[w] <= Slots
    /\ Len(jobs[w]) <= Slots - sem[w]
    /\ jobs[w] # <<>> => wpc[w] = "dispatch" /\ sem[w] < Slots
    /\ wpc[w] \in {"request", "do"} => freeSlots[w] <= Slots - sem[w]
    /\ wpc[w] = "dispatch" =>
         Len(jobs[w]) + Cardinality(tasks[w]) <= Slots

\* one slot taken by a running job, one job received for the one free slot and
\* about to be handed to a goroutine
C16_Witness ==
  \E w \in Workers :
    /\ wpc[w] = "dispatch" /\ Len(jobs[w]) = 1
    /\ sem[w] = Slots - 1
    /\ \E tk \in tasks[w] : tk.pc = "running"

\* C17: nothing stops the poll loop: it takes turn after turn for ever, and
\* after a job has ended Failed or TimedOut, as after a turn that met a
\* network error, an answer that does not decode or an empty list, a worker
\* with a usable server URL polls again.
C17_LoopNeverStops ==
  /\ \A w \in Workers : []<>(wpc[w] = "top") /\ []<>(wpc[w] # "top")
  /\ \A w \in Workers :
       (serverURL[w] = GoodURL /\ wpc[w] = "sleep") ~> (wpc[w] = "do")
  /\ \A w \in Workers :
       (serverURL[w] = GoodURL
          /\ \E tk \in tasks[w] : tk.outcome \in {"Failed", "TimedOut"})
         ~> (wpc[w] = "do")
  /\ [](\A w \in Workers :
          wpc[w] \in {"top", "request", "do", "dispatch", "sleep"})

\* a job has timed out and the loop, a turn later, hands the next job to a
\* goroutine
C17_Witness ==
  \E w \in Workers :
    /\ \E tk \in tasks[w] : tk.outcome = "TimedOut"
    /\ wpc[w] = "dispatch" /\ jobs[w] # <<>>
    /\ BagIn(1, released)

\* C18: every turn of the poll loop, whatever it met (no free slot, a request
\* that could not be built or sent, an answer that does not decode, jobs
\* handed out), ends with the sleep: the loop comes back to its top, where it
\* computes the free slots, only from the sleep.
C18_TurnEndsWithSleep ==
  [][\A w \in Workers : (wpc'[w] = "top" /\ wpc[w] # "top") => wpc[w] = "sleep"]_vars

\* C19: with fair scheduling, a transport that delivers, matching credentials
\* and a worker that keeps polling, every job the queue accepted is in the end
\* handed to a worker, started and brought to its log line, its slot is given
\* back, and a turn of the loop asks for the free slots again.
C19_EveryJobEnds ==
  /\ \A id \in JobIds : (id \in Ids(queue)) ~> (id \in Ids(Returned))
  /\ \A id \in JobIds : (id \in Ids(Returned)) ~> BagIn(id, started)
  /\ \A id \in JobIds :
       (BagIn(id, started) /\ ~BagIn(id, released))
         ~> (\E w \in Workers : \E tk \in TaskOf(w, id) :
               tk.pc = "logged" /\ tk.outcome \in {"Succeeded", "Failed", "TimedOut"})
  /\ \A id \in JobIds : (id \in Ids(enqLog)) ~> BagIn(id, released)
  /\ \A w \in Workers, id \in JobIds :
       BagIn(id, released) ~> (wpc[w] = "do" /\ freeSlots[w] >= 1)

\* three jobs were accepted, the worker with two slots has run them all, and
\* it polls again with both slots free
C19_Witness ==
  /\ \A id \in 1 .. 3 : BagIn(id, released)
  /\ queue = <<>>
  /\ \E w \in Workers : wpc[w] = "do" /\ freeSlots[w] = Slots /\ sem[w] = 0

\* C20: the slots taken on a worker are as many as the jobs handed to a
\* goroutine that have not given their slot back: the slot is taken before the
\* goroutine exists, each goroutine gives back one slot, once, after its job's
\* log line, and the giving back never finds the pool empty.
C20_SlotsMatchTasks ==
  /\ \A w \in Workers :
       /\ sem[w] = Cardinality(tasks[w])
       /\ Cardinality({tk.id : tk \in tasks[w]}) = Cardinality(tasks[w])
       /\ \A tk \in tasks[w] :
            /\ tk.pc = "logged" => sem[w] > 0
            /\ ~BagIn(tk.id, released)
            /\ tk.pc # "go" <=> BagIn(tk.id, started)
  /\ \A id \in JobIds :
       /\ CopiesIn(id, released) <= 1
       /\ BagIn(id, released) => BagIn(id, started)
       /\ BagIn(id, started) =>
            BagIn(id, released) \/ \E w \in Workers : TaskOf(w, id) # {}

\* both slots are taken: one job is at its log line and has not given its slot
\* back yet, the other is running
C20_Witness ==
  \E w \in Workers :
    /\ sem[w] = 2
    /\ \E tk \in tasks[w] : tk.pc = "logged"
    /\ \E tk \in tasks[w] : tk.pc = "running"

====
